---- MODULE Spec2Model ----
(***************************************************************************)
(* Model of the dependency-free YAML codec of DBToolkit                    *)
(* (SimpleYamlParser in src/src/utils/helpers.ts).                         *)
(*                                                                         *)
(* A JavaScript string is modelled as a sequence of one-character strings  *)
(* (<<"a", ":", " ", "1">> is the text "a: 1"), so that trim, indexOf,     *)
(* substring, split and the regular expressions of the source are computed *)
(* character by character.  Sequences are 1-based: the JavaScript index j  *)
(* is the position j + 1 here.                                             *)
(***************************************************************************)
EXTENDS Integers, Sequences, FiniteSets, TLC

VARIABLES pc, src, text, lines, i, heap, stack, currentArrayKey, result,
          cliPc, argv, command, remaining, argI, options, positionalArgs,
          migPc, migOptions, sourceConnector, targetConnector, migResult, pending

\* the state of SimpleCLI.parseArgs
cliVars == <<cliPc, argv, command, remaining, argI, options, positionalArgs>>

\* the state of SimpleYamlParser
yamlVars == <<pc, src, text, lines, i, heap, stack, currentArrayKey, result>>

\* the state of UniversalMigrator.migrate
migVars == <<migPc, migOptions, sourceConnector, targetConnector, migResult, pending>>

vars == <<yamlVars, cliVars, migVars>>

(***************************************************************************)
(* Bounds of the model.                                                    *)
(***************************************************************************)
MaxLines == 4
MaxSeqLen == 2
MaxDocLines == 3
MaxArgs == 4
MaxTables == 2

(***************************************************************************)
(* JavaScript string primitives.                                           *)
(***************************************************************************)
SP == " "
TAB == "\t"
NL == "\n"
CR == "\r"
DQ == "\""
SQ == "'"
BS == "\\"

WhiteSpace == {SP, TAB, NL, CR}

DigitChars == <<"0", "1", "2", "3", "4", "5", "6", "7", "8", "9">>

IsDigit(c) == \E j \in 1..10 : DigitChars[j] = c

DigitVal(c) == (CHOOSE j \in 1..10 : DigitChars[j] = c) - 1

AllDigits(s) == \A j \in 1..Len(s) : IsDigit(s[j])

RECURSIVE Concat(_)
Concat(ss) == IF ss = <<>> THEN <<>> ELSE Head(ss) \o Concat(Tail(ss))

Repeat(s, count) == Concat([j \in 1..count |-> s])

\* s.substring(from) and s.substring(from, to), JavaScript indices
SubstringFrom(s, from) == SubSeq(s, from + 1, Len(s))

Substring(s, from, to) == SubSeq(s, from + 1, to)

\* s.slice(1, -1)
Slice1(s) == SubSeq(s, 2, Len(s) - 1)

StartsWith(s, p) == Len(s) >= Len(p) /\ SubSeq(s, 1, Len(p)) = p

EndsWith(s, p) == Len(s) >= Len(p) /\ SubSeq(s, Len(s) - Len(p) + 1, Len(s)) = p

Includes(s, c) == \E j \in 1..Len(s) : s[j] = c

\* s.indexOf(c): JavaScript index of the first occurrence, -1 when absent
IndexOf(s, c) ==
    IF Includes(s, c)
    THEN (CHOOSE j \in 1..Len(s) : s[j] = c /\ \A m \in 1..(j - 1) : s[m] # c) - 1
    ELSE -1

\* s.trim()
Trim(s) ==
    IF \A j \in 1..Len(s) : s[j] \in WhiteSpace
    THEN <<>>
    ELSE LET first == CHOOSE j \in 1..Len(s) :
                         s[j] \notin WhiteSpace /\ \A m \in 1..(j - 1) : s[m] \in WhiteSpace
             last == CHOOSE j \in 1..Len(s) :
                         s[j] \notin WhiteSpace /\ \A m \in (j + 1)..Len(s) : s[m] \in WhiteSpace
         IN  SubSeq(s, first, last)

\* s.split('\n')
RECURSIVE Split(_)
Split(s) ==
    LET at == IndexOf(s, NL)
    IN  IF at = -1 THEN <<s>>
        ELSE <<Substring(s, 0, at)>> \o Split(SubstringFrom(s, at + 1))

\* value.replace(/"/g, '\\"')
RECURSIVE EscapeQuotes(_)
EscapeQuotes(s) ==
    IF s = <<>> THEN <<>>
    ELSE (IF Head(s) = DQ THEN <<BS, DQ>> ELSE <<Head(s)>>) \o EscapeQuotes(Tail(s))

(***************************************************************************)
(* Values.  A scalar is a tagged record; a JavaScript object is a "map"    *)
(* with its own property keys in property order, an array is a "seq".      *)
(* Inside the decoder's heap a nested object or array is a reference to    *)
(* another heap cell; in a value tree it is the nested record itself.      *)
(***************************************************************************)
VNull == [t |-> "null"]

Undefined == [t |-> "undefined"]

VBool(b) == [t |-> "bool", b |-> b]

VStr(s) == [t |-> "str", s |-> s]

VMap(ks, vs) == [t |-> "map", k |-> ks, v |-> vs]

VSeq(es) == [t |-> "seq", e |-> es]

Ref(id) == [t |-> "ref", id |-> id]

EmptyObject == VMap(<<>>, <<>>)

EmptyArray == VSeq(<<>>)

NoValue == [t |-> "none"]

IsScalar(x) == x.t \in {"null", "bool", "num", "str"}

(***************************************************************************)
(* Numbers.  A finite number is sign, significant decimal digits d (no     *)
(* leading or trailing zero) and the decimal exponent n of ECMAScript's    *)
(* Number::toString: the value is 0.d1 d2 ... dk * 10^n.  Zero has no      *)
(* digits.  The model holds numbers of at most a few digits, so binary     *)
(* rounding plays no part.                                                 *)
(***************************************************************************)
LeadingZeros(ds) ==
    IF \A j \in 1..Len(ds) : ds[j] = 0 THEN Len(ds)
    ELSE (CHOOSE j \in 1..Len(ds) : ds[j] # 0 /\ \A m \in 1..(j - 1) : ds[m] = 0) - 1

TrailingZeros(ds) ==
    IF \A j \in 1..Len(ds) : ds[j] = 0 THEN Len(ds)
    ELSE Len(ds) - (CHOOSE j \in 1..Len(ds) : ds[j] # 0 /\ \A m \in (j + 1)..Len(ds) : ds[m] = 0)

\* the number sign 0.ds * 10^n, normalised
VNum(neg, ds, n) ==
    IF \A j \in 1..Len(ds) : ds[j] = 0
    THEN [t |-> "num", neg |-> FALSE, d |-> <<>>, n |-> 0]
    ELSE [t |-> "num", neg |-> neg,
          d |-> SubSeq(ds, LeadingZeros(ds) + 1, Len(ds) - TrailingZeros(ds)),
          n |-> n - LeadingZeros(ds)]

DigitVals(s) == [j \in 1..Len(s) |-> DigitVal(s[j])]

DigitText(ds) == [j \in 1..Len(ds) |-> DigitChars[ds[j] + 1]]

RECURSIVE NatToText(_)
NatToText(m) ==
    IF m < 10 THEN <<DigitChars[m + 1]>>
    ELSE NatToText(m \div 10) \o <<DigitChars[(m % 10) + 1]>>

\* Number.prototype.toString() (radix 10)
NumberToString(x) ==
    LET k == Len(x.d)
        n == x.n
        digits == DigitText(x.d)
        e == n - 1
        body ==
            IF k = 0 THEN <<"0">>
            ELSE IF k <= n /\ n <= 21 THEN digits \o Repeat(<<"0">>, n - k)
            ELSE IF 0 < n /\ n <= 21
                 THEN SubSeq(digits, 1, n) \o <<".">> \o SubSeq(digits, n + 1, k)
            ELSE IF -6 < n /\ n <= 0
                 THEN <<"0", ".">> \o Repeat(<<"0">>, -n) \o digits
            ELSE (IF k = 1 THEN digits
                  ELSE <<digits[1], ".">> \o SubSeq(digits, 2, k))
                 \o <<"e", IF e < 0 THEN "-" ELSE "+">>
                 \o NatToText(IF e < 0 THEN -e ELSE e)
    IN  (IF x.neg THEN <<"-">> ELSE <<>>) \o body

\* /^-?\d+$/.test(s)
MatchesInteger(s) ==
    LET u == IF StartsWith(s, <<"-">>) THEN Tail(s) ELSE s
    IN  Len(u) >= 1 /\ AllDigits(u)

\* digits required on both sides of the point
MatchesDecimalStrict(s) ==
    LET u == IF StartsWith(s, <<"-">>) THEN Tail(s) ELSE s
        dot == IndexOf(u, ".")
    IN  /\ dot >= 1
        /\ AllDigits(Substring(u, 0, dot))
        /\ Len(u) - dot - 1 >= 1
        /\ AllDigits(SubstringFrom(u, dot + 1))

\* /^-?\d*\.\d+$/.test(s)
MatchesDecimal(s) ==
    LET u == IF StartsWith(s, <<"-">>) THEN Tail(s) ELSE s
        dot == IndexOf(u, ".")
    IN  /\ dot >= 0
        /\ AllDigits(Substring(u, 0, dot))
        /\ Len(u) - dot - 1 >= 1
        /\ AllDigits(SubstringFrom(u, dot + 1))

\* parseInt(s, 10) of a text that matches the integer pattern
ParseInt(s) ==
    LET neg == StartsWith(s, <<"-">>)
        u == IF neg THEN Tail(s) ELSE s
    IN  VNum(neg, DigitVals(u), Len(u))

\* parseFloat(s) of a text that matches the decimal pattern
ParseFloat(s) ==
    LET neg == StartsWith(s, <<"-">>)
        u == IF neg THEN Tail(s) ELSE s
        dot == IndexOf(u, ".")
    IN  VNum(neg, DigitVals(Substring(u, 0, dot) \o SubstringFrom(u, dot + 1)), dot)

(***************************************************************************)
(* Scalar coercion: SimpleYamlParser.parseValue and formatValue.           *)
(***************************************************************************)
parseValue(value) ==
    IF value = <<"t", "r", "u", "e">> THEN VBool(TRUE)
    ELSE IF value = <<"f", "a", "l", "s", "e">> THEN VBool(FALSE)
    ELSE IF value = <<"n", "u", "l", "l">> \/ value = <<"~">> THEN VNull
    ELSE IF value = <<>> THEN VStr(<<>>)
    ELSE IF MatchesInteger(value) THEN ParseInt(value)
    ELSE IF MatchesDecimal(value) THEN ParseFloat(value)
    ELSE IF \/ (StartsWith(value, <<DQ>>) /\ EndsWith(value, <<DQ>>))
            \/ (StartsWith(value, <<SQ>>) /\ EndsWith(value, <<SQ>>))
         THEN VStr(Slice1(value))
    ELSE VStr(value)

\* '#' forgotten in the quoting condition
NeedsQuotesNoHash(s) ==
    \/ Includes(s, ":") \/ Includes(s, NL)
    \/ StartsWith(s, <<"-">>) \/ StartsWith(s, <<"[">>) \/ StartsWith(s, <<"{">>)

NeedsQuotes(s) ==
    \/ Includes(s, ":") \/ Includes(s, "#") \/ Includes(s, NL)
    \/ StartsWith(s, <<"-">>) \/ StartsWith(s, <<"[">>) \/ StartsWith(s, <<"{">>)

formatValue(value) ==
    IF value.t \in {"null", "undefined"} THEN <<"n", "u", "l", "l">>
    ELSE IF value.t = "bool"
         THEN (IF value.b THEN <<"t", "r", "u", "e">> ELSE <<"f", "a", "l", "s", "e">>)
    ELSE IF value.t = "num" THEN NumberToString(value)
    ELSE IF NeedsQuotes(value.s) THEN <<DQ>> \o EscapeQuotes(value.s) \o <<DQ>>
    ELSE value.s

(***************************************************************************)
(* JavaScript objects.  Own string keys are enumerated with the canonical  *)
(* array-index keys ("0", "7", "12", no leading zero) first, in ascending  *)
(* numeric order, and then the other keys in insertion order; assigning to *)
(* an existing key keeps its position.                                     *)
(***************************************************************************)
IsArrayIndex(key) ==
    /\ Len(key) >= 1
    /\ AllDigits(key)
    /\ (Len(key) > 1 => key[1] # "0")

RECURSIVE IndexValue(_)
IndexValue(key) ==
    IF key = <<>> THEN 0
    ELSE 10 * IndexValue(SubSeq(key, 1, Len(key) - 1)) + DigitVal(key[Len(key)])

HasKey(o, key) == \E j \in 1..Len(o.k) : o.k[j] = key

KeyPos(o, key) == CHOOSE j \in 1..Len(o.k) : o.k[j] = key

\* o[key]
ObjGet(o, key) == IF HasKey(o, key) THEN o.v[KeyPos(o, key)] ELSE Undefined

InsertAt(s, at, x) == SubSeq(s, 1, at - 1) \o <<x>> \o SubSeq(s, at, Len(s))

\* where a new key goes in the property order
NewKeyPos(o, key) ==
    IF IsArrayIndex(key)
    THEN 1 + Cardinality({j \in 1..Len(o.k) :
                 IsArrayIndex(o.k[j]) /\ IndexValue(o.k[j]) < IndexValue(key)})
    ELSE Len(o.k) + 1

\* o[key] = val
ObjSet(o, key, val) ==
    IF HasKey(o, key)
    THEN [o EXCEPT !.v[KeyPos(o, key)] = val]
    ELSE [o EXCEPT !.k = InsertAt(o.k, NewKeyPos(o, key), key),
                   !.v = InsertAt(o.v, NewKeyPos(o, key), val)]

\* the object built by assigning vs[j] to ks[j] in turn
RECURSIVE ObjectOf(_, _)
ObjectOf(ks, vs) ==
    IF ks = <<>> THEN EmptyObject
    ELSE ObjSet(ObjectOf(SubSeq(ks, 1, Len(ks) - 1), SubSeq(vs, 1, Len(vs) - 1)),
                ks[Len(ks)], vs[Len(vs)])

\* JavaScript truthiness of a value held in an object
Truthy(x) ==
    CASE x.t = "undefined" -> FALSE
      [] x.t = "null" -> FALSE
      [] x.t = "bool" -> x.b
      [] x.t = "num" -> x.d # <<>>
      [] x.t = "str" -> x.s # <<>>
      [] OTHER -> TRUE

(***************************************************************************)
(* SimpleYamlParser.stringify.                                             *)
(***************************************************************************)
IsObjectValue(x) == x.t \in {"map", "seq"}

RECURSIVE stringify(_, _)
\* a nested element rendered at the indent of its dash line
ItemTextAtDashIndent(item, prefix, depth) ==
    IF IsObjectValue(item)
    THEN prefix \o <<"-", SP, NL>> \o stringify(item, depth - 1)
    ELSE prefix \o <<"-", SP>> \o formatValue(item) \o <<NL>>

\* one element of an array: the loops of lines 83-89 and 94-100
ItemText(item, prefix, depth) ==
    IF IsObjectValue(item)
    THEN prefix \o <<"-", SP, NL>> \o stringify(item, depth)
    ELSE prefix \o <<"-", SP>> \o formatValue(item) \o <<NL>>

\* a nested object rendered at the indent of its key
EntryTextFlat(key, value, indent) ==
    LET spaces == Repeat(<<SP, SP>>, indent)
    IN  IF value.t = "seq"
        THEN spaces \o key \o <<":", NL>>
             \o Concat([j \in 1..Len(value.e) |->
                           ItemText(value.e[j], spaces \o <<SP, SP>>, indent + 2)])
        ELSE IF value.t = "map"
        THEN spaces \o key \o <<":", NL>> \o stringify(value, indent)
        ELSE spaces \o key \o <<":", SP>> \o formatValue(value) \o <<NL>>

\* one entry of an object: the body of the loop of lines 91-106
EntryText(key, value, indent) ==
    LET spaces == Repeat(<<SP, SP>>, indent)
    IN  IF value.t = "seq"
        THEN spaces \o key \o <<":", NL>>
             \o Concat([j \in 1..Len(value.e) |->
                           ItemText(value.e[j], spaces \o <<SP, SP>>, indent + 2)])
        ELSE IF value.t = "map"
        THEN spaces \o key \o <<":", NL>> \o stringify(value, indent + 1)
        ELSE spaces \o key \o <<":", SP>> \o formatValue(value) \o <<NL>>

stringify(obj, indent) ==
    IF obj.t = "seq"
    THEN Concat([j \in 1..Len(obj.e) |->
                    ItemText(obj.e[j], Repeat(<<SP, SP>>, indent), indent + 1)])
    ELSE IF obj.t = "map"
    THEN Concat([j \in 1..Len(obj.k) |-> EntryText(obj.k[j], obj.v[j], indent)])
    ELSE <<>>

(***************************************************************************)
(* SimpleYamlParser.parse.  The decoder's objects live in a heap: heap[id] *)
(* is an object or an array whose nested objects are references, heap[1]   *)
(* is the result object, and a stack frame holds the id of its object, as  *)
(* the JavaScript frames hold references.                                  *)
(***************************************************************************)
RootId == 1

NullKey == <<>>

Frame(id, indent, key) == [obj |-> id, indent |-> indent, key |-> key]

\* a tab counted like a space
IndentWidthTabAsOne(char) == IF char \in {SP, TAB} THEN 1 ELSE 0

\* what one leading character adds to the indent (lines 115-119)
IndentWidth(char) == IF char = SP THEN 1 ELSE IF char = TAB THEN 2 ELSE 0

RECURSIVE getIndentLevel(_)
getIndentLevel(line) ==
    IF line = <<>> \/ Head(line) \notin {SP, TAB} THEN 0
    ELSE IndentWidth(Head(line)) + getIndentLevel(Tail(line))

\* while (stack.length > 1 && stack[stack.length - 1].indent >= indent) stack.pop()
RECURSIVE Unwind(_, _), UnwindStrict(_, _)
\* frames of the same indent left open
UnwindStrict(stk, indent) ==
    IF Len(stk) > 1 /\ stk[Len(stk)].indent > indent
    THEN UnwindStrict(SubSeq(stk, 1, Len(stk) - 1), indent)
    ELSE stk

Unwind(stk, indent) ==
    IF Len(stk) > 1 /\ stk[Len(stk)].indent >= indent
    THEN Unwind(SubSeq(stk, 1, Len(stk) - 1), indent)
    ELSE stk

IsArray(hp, x) == x.t = "ref" /\ hp[x.id].t = "seq"

\* Object.keys(x).length === 0 for an object or array x
HasNoKeys(hp, x) ==
    x.t = "ref" /\ (IF hp[x.id].t = "seq" THEN hp[x.id].e = <<>> ELSE hp[x.id].k = <<>>)

ItemsKey == <<"i", "t", "e", "m", "s">>

\* parent['items'] = [] for every item that finds no key: earlier items are lost
handleArrayItemRenews(st, indent, value, arrayKey) ==
    LET stk == Unwind(st.stack, indent)
        pid == stk[Len(stk)].obj
        parent == st.heap[pid]
        fresh == Len(st.heap) + 1
        byKey == arrayKey # NullKey /\ Truthy(ObjGet(parent, arrayKey))
        keys == parent.k
        lastKey == IF keys = <<>> THEN NullKey ELSE keys[Len(keys)]
        lastVal == ObjGet(parent, lastKey)
        byLast == /\ lastKey # NullKey
                  /\ (lastVal.t \in {"null", "undefined"} \/ HasNoKeys(st.heap, lastVal))
        \* the key whose value is the target, and whether a new array is stored there
        targetKey == IF byKey THEN arrayKey ELSE IF byLast THEN lastKey ELSE ItemsKey
        old == ObjGet(parent, targetKey)
        renew == IF byKey THEN ~IsArray(st.heap, old)
                 ELSE TRUE
        heap1 == IF renew
                 THEN Append([st.heap EXCEPT ![pid] = ObjSet(parent, targetKey, Ref(fresh))],
                             EmptyArray)
                 ELSE st.heap
        target == ObjGet(heap1[pid], targetKey)
        parsedValue == parseValue(value)
    IN  IF IsArray(heap1, target)
        THEN [st EXCEPT !.stack = stk,
                        !.heap = [heap1 EXCEPT ![target.id].e = Append(@, parsedValue)]]
        ELSE [st EXCEPT !.stack = stk, !.heap = heap1, !.thrown = TRUE]

\* a payload holding ':' appended as a mapping of its own
handleArrayItemNested(st, indent, value, arrayKey) ==
    LET stk == Unwind(st.stack, indent)
        pid == stk[Len(stk)].obj
        parent == st.heap[pid]
        fresh == Len(st.heap) + 1
        byKey == arrayKey # NullKey /\ Truthy(ObjGet(parent, arrayKey))
        keys == parent.k
        lastKey == IF keys = <<>> THEN NullKey ELSE keys[Len(keys)]
        lastVal == ObjGet(parent, lastKey)
        byLast == /\ lastKey # NullKey
                  /\ (lastVal.t \in {"null", "undefined"} \/ HasNoKeys(st.heap, lastVal))
        \* the key whose value is the target, and whether a new array is stored there
        targetKey == IF byKey THEN arrayKey ELSE IF byLast THEN lastKey ELSE ItemsKey
        old == ObjGet(parent, targetKey)
        renew == IF byKey THEN ~IsArray(st.heap, old)
                 ELSE IF byLast THEN TRUE
                 ELSE ~Truthy(old)
        heap1 == IF renew
                 THEN Append([st.heap EXCEPT ![pid] = ObjSet(parent, targetKey, Ref(fresh))],
                             EmptyArray)
                 ELSE st.heap
        target == ObjGet(heap1[pid], targetKey)
        parsedValue == IF Includes(value, ":") THEN EmptyObject ELSE parseValue(value)
    IN  IF IsArray(heap1, target)
        THEN [st EXCEPT !.stack = stk,
                        !.heap = [heap1 EXCEPT ![target.id].e = Append(@, parsedValue)]]
        ELSE [st EXCEPT !.stack = stk, !.heap = heap1, !.thrown = TRUE]

\* The decoder state after handleArrayItem(stack, indent, value, arrayKey);
\* thrown is set when targetArray.push is called on a value that is no array.
handleArrayItem(st, indent, value, arrayKey) ==
    LET stk == Unwind(st.stack, indent)
        pid == stk[Len(stk)].obj
        parent == st.heap[pid]
        fresh == Len(st.heap) + 1
        byKey == arrayKey # NullKey /\ Truthy(ObjGet(parent, arrayKey))
        keys == parent.k
        lastKey == IF keys = <<>> THEN NullKey ELSE keys[Len(keys)]
        lastVal == ObjGet(parent, lastKey)
        byLast == /\ lastKey # NullKey
                  /\ (lastVal.t \in {"null", "undefined"} \/ HasNoKeys(st.heap, lastVal))
        \* the key whose value is the target, and whether a new array is stored there
        targetKey == IF byKey THEN arrayKey ELSE IF byLast THEN lastKey ELSE ItemsKey
        old == ObjGet(parent, targetKey)
        renew == IF byKey THEN ~IsArray(st.heap, old)
                 ELSE IF byLast THEN TRUE
                 ELSE ~Truthy(old)
        heap1 == IF renew
                 THEN Append([st.heap EXCEPT ![pid] = ObjSet(parent, targetKey, Ref(fresh))],
                             EmptyArray)
                 ELSE st.heap
        target == ObjGet(heap1[pid], targetKey)
        parsedValue == parseValue(value)
    IN  IF IsArray(heap1, target)
        THEN [st EXCEPT !.stack = stk,
                        !.heap = [heap1 EXCEPT ![target.id].e = Append(@, parsedValue)]]
        ELSE [st EXCEPT !.stack = stk, !.heap = heap1, !.thrown = TRUE]

\* the frame pushed for an empty value holds the parent, not the new object
handleKeyValueFramesParent(st, indent, key, value) ==
    LET stk == Unwind(st.stack, indent)
        pid == stk[Len(stk)].obj
        parent == st.heap[pid]
        fresh == Len(st.heap) + 1
    IN  IF value = <<>>
        THEN [st EXCEPT !.heap = Append([st.heap EXCEPT ![pid] = ObjSet(parent, key, Ref(fresh))],
                                        EmptyObject),
                        !.stack = Append(stk, Frame(pid, indent, key))]
        ELSE [st EXCEPT !.heap = [st.heap EXCEPT ![pid] = ObjSet(parent, key, parseValue(value))],
                        !.stack = stk]

\* the stack is cut back only for a leaf; a frame is pushed on whatever is open
handleKeyValuePushesOnTop(st, indent, key, value) ==
    LET stk == Unwind(st.stack, indent)
        pid == stk[Len(stk)].obj
        parent == st.heap[pid]
        fresh == Len(st.heap) + 1
    IN  IF value = <<>>
        THEN [st EXCEPT !.heap = Append([st.heap EXCEPT ![pid] = ObjSet(parent, key, Ref(fresh))],
                                        EmptyObject),
                        !.stack = Append(st.stack, Frame(fresh, indent, key))]
        ELSE [st EXCEPT !.heap = [st.heap EXCEPT ![pid] = ObjSet(parent, key, parseValue(value))],
                        !.stack = stk]

\* The decoder state after handleKeyValue(stack, indent, key, value)
handleKeyValue(st, indent, key, value) ==
    LET stk == Unwind(st.stack, indent)
        pid == stk[Len(stk)].obj
        parent == st.heap[pid]
        fresh == Len(st.heap) + 1
    IN  IF value = <<>>
        THEN [st EXCEPT !.heap = Append([st.heap EXCEPT ![pid] = ObjSet(parent, key, Ref(fresh))],
                                        EmptyObject),
                        !.stack = Append(stk, Frame(fresh, indent, key))]
        ELSE [st EXCEPT !.heap = [st.heap EXCEPT ![pid] = ObjSet(parent, key, parseValue(value))],
                        !.stack = stk]

\* comment lines not skipped
IsSkippedBlankOnly(line) == Trim(line) = <<>>

\* if (!line.trim() || line.trim().startsWith('#')) continue
IsSkipped(line) == Trim(line) = <<>> \/ StartsWith(Trim(line), <<"#">>)

IsArrayItemLine(line) == StartsWith(Trim(line), <<"-", SP>>)

\* the lookahead of lines 61-66: the pending array key after a key-value line
NextArrayKey(st, key, value) ==
    IF /\ value = <<>>
       /\ st.i + 1 <= Len(st.lines)
       /\ StartsWith(Trim(st.lines[st.i + 1]), <<"-", SP>>)
    THEN key
    ELSE st.currentArrayKey

\* s.lastIndexOf(c)
LastIndexOf(s, c) ==
    IF \E p \in 1..Len(s) : s[p] = c
    THEN (CHOOSE p \in 1..Len(s) : s[p] = c /\ \A q \in (p + 1)..Len(s) : s[q] # c) - 1
    ELSE -1

\* the line split at its last ':'
ParseLineLastColon(st) ==
    LET line == st.lines[st.i]
        indent == getIndentLevel(line)
        trimmedLine == Trim(line)
        colonIndex == LastIndexOf(trimmedLine, ":")
        key == Trim(Substring(trimmedLine, 0, colonIndex))
        value == Trim(SubstringFrom(trimmedLine, colonIndex + 1))
    IN  IF IsSkipped(line) THEN st
        ELSE IF IsArrayItemLine(line)
        THEN handleArrayItem(st, indent, Trim(SubstringFrom(trimmedLine, 2)),
                             st.currentArrayKey)
        ELSE IF colonIndex > 0
        THEN handleKeyValue([st EXCEPT !.currentArrayKey = NextArrayKey(st, key, value)],
                            indent, key, value)
        ELSE st

\* a skipped line forgets the pending array key
ParseLineClearsKey(st) ==
    LET line == st.lines[st.i]
        indent == getIndentLevel(line)
        trimmedLine == Trim(line)
        colonIndex == IndexOf(trimmedLine, ":")
        key == Trim(Substring(trimmedLine, 0, colonIndex))
        value == Trim(SubstringFrom(trimmedLine, colonIndex + 1))
    IN  IF IsSkipped(line) THEN [st EXCEPT !.currentArrayKey = NullKey]
        ELSE IF IsArrayItemLine(line)
        THEN handleArrayItem(st, indent, Trim(SubstringFrom(trimmedLine, 2)),
                             st.currentArrayKey)
        ELSE IF colonIndex > 0
        THEN handleKeyValue([st EXCEPT !.currentArrayKey = NextArrayKey(st, key, value)],
                            indent, key, value)
        ELSE st

\* one iteration of the loop of parse, on line st.i (without the i++)
ParseLine(st) ==
    LET line == st.lines[st.i]
        indent == getIndentLevel(line)
        trimmedLine == Trim(line)
        colonIndex == IndexOf(trimmedLine, ":")
        key == Trim(Substring(trimmedLine, 0, colonIndex))
        value == Trim(SubstringFrom(trimmedLine, colonIndex + 1))
    IN  IF IsSkipped(line) THEN st
        ELSE IF IsArrayItemLine(line)
        THEN handleArrayItem(st, indent, Trim(SubstringFrom(trimmedLine, 2)),
                             st.currentArrayKey)
        ELSE IF colonIndex > 0
        THEN handleKeyValue([st EXCEPT !.currentArrayKey = NextArrayKey(st, key, value)],
                            indent, key, value)
        ELSE st

\* the locals of parse before the loop
ParseStart(yamlString) ==
    [lines |-> Split(yamlString), i |-> 1, heap |-> <<EmptyObject>>,
     stack |-> <<Frame(RootId, -1, NullKey)>>, currentArrayKey |-> NullKey,
     thrown |-> FALSE]

\* the value tree an object of the heap stands for
RECURSIVE TreeOf(_, _)
TreeOf(hp, x) ==
    IF x.t # "ref" THEN x
    ELSE IF hp[x.id].t = "seq"
    THEN VSeq([j \in 1..Len(hp[x.id].e) |-> TreeOf(hp, hp[x.id].e[j])])
    ELSE VMap(hp[x.id].k, [j \in 1..Len(hp[x.id].k) |-> TreeOf(hp, hp[x.id].v[j])])

Thrown == [t |-> "thrown"]

\* parse(yamlString) as a function: the returned value, or Thrown
RECURSIVE RunParse(_)
RunParse(st) ==
    IF st.thrown THEN Thrown
    ELSE IF st.i > Len(st.lines) THEN TreeOf(st.heap, Ref(RootId))
    ELSE RunParse([ParseLine(st) EXCEPT !.i = st.i + 1])

parse(yamlString) == RunParse(ParseStart(yamlString))

(***************************************************************************)
(* Inputs.                                                                 *)
(***************************************************************************)
\* the physical lines documents are made of
CatalogLines ==
    { <<"a", ":">>,
      <<"a", ":", SP, "1">>,
      <<"-", SP, "x">>,
      <<SP, SP, "-", SP, "y">>,
      ItemsKey \o <<":", SP, "5">>,
      <<TAB, "2", ":">>,
      <<"#", SP, "k", ":", SP, "1">>,
      <<>>,
      <<"x">> }

(***************************************************************************)
(* SimpleCLI.parseArgs.  Tokens are strings; options is an object whose    *)
(* values are true, a string or an array of strings.                       *)
(***************************************************************************)
\* s.split(c) for a one-character separator
RECURSIVE SplitBy(_, _)
SplitBy(s, c) ==
    LET at == IndexOf(s, c)
    IN  IF at = -1 THEN <<s>>
        ELSE <<Substring(s, 0, at)>> \o SplitBy(SubstringFrom(s, at + 1), c)

\* argv.slice(2)
SliceArgs(a) == SubSeq(a, 3, Len(a))

\* a token after '--name' is taken as its value unless it starts with '--'
TakesValueUnlessLong(rem, idx) ==
    idx + 1 <= Len(rem) /\ ~StartsWith(rem[idx + 1], <<"-", "-">>)

\* i + 1 < remaining.length && !remaining[i + 1].startsWith('-'), idx = i + 1
TakesValue(rem, idx) ==
    idx + 1 <= Len(rem) /\ ~StartsWith(rem[idx + 1], <<"-">>)

\* the value stored for '--name value'
OptionValue(value) ==
    IF Includes(value, ",")
    THEN VSeq([j \in 1..Len(SplitBy(value, ",")) |-> VStr(Trim(SplitBy(value, ",")[j]))])
    ELSE VStr(value)

HelpCommand == <<"h", "e", "l", "p">>

(***************************************************************************)
(* UniversalMigrator.migrate.  A connector is known by the calls made on   *)
(* it; errors are the messages pushed, by their fixed prefixes; pending is *)
(* the exception in flight, if any.  The scripts list, which no step       *)
(* reads, is left out of the result.                                       *)
(***************************************************************************)
NoError == "none"

NoOptions == [sourceIsNoSQL |-> FALSE, targetIsNoSQL |-> FALSE]

NoConnector == [created |-> FALSE, connectCalled |-> FALSE, disconnectCalled |-> FALSE]

\* DatabaseFactory.createConnector(config)
NewConnector == [created |-> TRUE, connectCalled |-> FALSE, disconnectCalled |-> FALSE]

NoResult == [t |-> "none"]

\* the result of lines 34-41
FreshResult ==
    [success |-> FALSE, tablesProcessed |-> 0, collectionsProcessed |-> 0,
     recordsMigrated |-> 0, errors |-> <<>>]

\* result.errors.push(...sourceErrors.map(...)); result.errors.push(...targetErrors.map(...))
ConfigErrors(sourceErrors, targetErrors) ==
    [j \in 1..sourceErrors |-> "Source: "] \o [j \in 1..targetErrors |-> "Target: "]

\* the number of items of outcomes that went through
RECURSIVE Processed(_)
Processed(outcomes) ==
    IF outcomes = <<>> THEN 0
    ELSE (IF Head(outcomes) THEN 1 ELSE 0) + Processed(Tail(outcomes))

\* the errors pushed by the catch inside the loop, in order
RECURSIVE ItemErrors(_)
ItemErrors(outcomes) ==
    IF outcomes = <<>> THEN <<>>
    ELSE (IF Head(outcomes) THEN <<>> ELSE <<"Error migrating: ">>) \o ItemErrors(Tail(outcomes))

\* The Partial<MigrationResult> of migrateSQLToSQL, migrateNoSQLToNoSQL,
\* migrateSQLToNoSQL or migrateNoSQLToSQL: fetched tells whether the list of
\* tables or collections was read, outcomes which items went through.
MigrationOutcome(opts, fetched, outcomes) ==
    LET done == IF fetched THEN Processed(outcomes) ELSE 0
        errs == IF fetched THEN ItemErrors(outcomes) ELSE <<"migration error: ">>
    IN  IF ~opts.sourceIsNoSQL /\ ~opts.targetIsNoSQL
        THEN [tablesProcessed |-> done, recordsMigrated |-> 0, errors |-> errs]
        ELSE IF opts.sourceIsNoSQL /\ opts.targetIsNoSQL
        THEN [collectionsProcessed |-> done, recordsMigrated |-> 0, errors |-> errs]
        ELSE [tablesProcessed |-> done, collectionsProcessed |-> done,
              recordsMigrated |-> 0, errors |-> errs]

\* Object.assign(target, source)
ObjectAssign(target, source) ==
    [f \in DOMAIN target |-> IF f \in DOMAIN source THEN source[f] ELSE target[f]]

\* success is decided before the connectors are closed and never taken back
SuccessOf(res) == res.errors = <<>>

\* the catch of lines 111-114
CatchError(res) == [res EXCEPT !.errors = Append(@, "Migration failed: ")]

\* lines of nested mappings: keys at indents 0, 2 and 4, values holding ':',
\* a line starting with ':', an empty-valued key before an item whose payload holds ':', and a blank
LineCatalog ==
    { <<"n", "e", "s", "t", "e", "d", ":">>,
      <<SP, SP, "i", "n", "n", "e", "r", ":", SP, "5">>,
      <<"a", ":", SP, "1">>,
      <<SP, SP, "k", SP, ":", SP, "u", ":", "v">>,
      <<SP, SP, SP, SP, "c", ":">>,
      <<":", "a", ":", SP, "b">>,
      <<"b", ":">>,
      <<"-", SP, "u", ":", SP, "v">>,
      <<>>,
      <<"x">> }

\* lines joined by '\n'
RECURSIVE Join(_)
Join(ls) ==
    IF ls = <<>> THEN <<>>
    ELSE IF Len(ls) = 1 THEN ls[1]
    ELSE ls[1] \o <<NL>> \o Join(Tail(ls))

Documents == { Join(ls) : ls \in UNION { [1..m -> CatalogLines] : m \in 0..MaxLines } }

\* tokens of a command line
CliTokens ==
    { <<"m">>, <<"x">>, <<"-", "-", "n">>, <<"-", "-", "t">>, <<"-", "v">>,
      <<"a", ",", SP, "b">>, <<",">>, <<"-", "-">> }

\* the argv of test-comprehensive.ts, its host, port and credential options left out
ComplexArgs ==
    << <<"n", "o", "d", "e">>,
       <<"s", "r", "c", "/", "a", "p", "p", ".", "t", "s">>,
       <<"m", "i", "g", "r", "a", "t", "e">>,
       <<"-", "-", "s", "o", "u", "r", "c", "e", "-", "p", "r", "o", "v", "i", "d", "e", "r">>,
       <<"m", "y", "s", "q", "l">>,
       <<"-", "-", "t", "a", "r", "g", "e", "t", "-", "p", "r", "o", "v", "i", "d", "e", "r">>,
       <<"p", "o", "s", "t", "g", "r", "e", "s", "q", "l">>,
       <<"-", "-", "i", "n", "c", "l", "u", "d", "e", "-", "d", "a", "t", "a">>,
       <<"-", "-", "b", "a", "t", "c", "h", "-", "s", "i", "z", "e">>,
       <<"1", "0", "0", "0">>,
       <<"-", "-", "t", "a", "b", "l", "e", "s">>,
       <<"u", "s", "e", "r", "s", ",", "o", "r", "d", "e", "r", "s", ",", "p", "r", "o", "d", "u", "c", "t", "s">>,
       <<"-", "-", "c", "o", "n", "f", "i", "g", "-", "f", "i", "l", "e">>,
       <<"c", "o", "n", "f", "i", "g", ".", "y", "a", "m", "l">> >>

ArgVectors ==
    { <<<<"n", "o", "d", "e">>, <<"c", "l", "i">>>> \o ts :
         ts \in UNION { [1..m -> CliTokens] : m \in 0..MaxArgs } }
    \cup { <<>>, <<<<"n", "o", "d", "e">>>>, ComplexArgs }

LineDocuments == { Join(ls) : ls \in UNION { [1..m -> LineCatalog] : m \in 0..MaxDocLines } }

Exponents == {-6, -5, 0, 1, 2, 3, 21, 22}

Numbers ==
    { VNum(neg, ds, n) : neg \in BOOLEAN, ds \in {<<0>>, <<1>>, <<2>>, <<1, 5>>}, n \in Exponents }

Strings ==
    { <<"x">>, <<"y">>, <<>>, <<"t", "r", "u", "e">>, <<"5">>, <<"a", ":", SP, "b">>,
      <<"a", DQ, ":", "b">>, <<SQ, "q", SQ>>, <<SP, "p">>, <<"-", "z">>, <<"u", "#", "v">> }

\* further strings for formatValue alone
QuotingStrings ==
    { <<"a", NL, "b">>, <<"[", "a", "]">>, <<"{", "a">>, <<"a", DQ, "b">>, <<"a", "-", "b">>,
      <<"#", DQ>>, <<"a", "[">>, <<DQ, ":", DQ>> }

Scalars ==
    {VNull, VBool(TRUE), VBool(FALSE)} \cup Numbers
    \cup { VStr(s) : s \in Strings \cup QuotingStrings }

\* bare texts handed to parseValue
RawTexts ==
    { <<"t", "r", "u", "e">>, <<"f", "a", "l", "s", "e">>, <<"n", "u", "l", "l">>, <<"~">>, <<>>,
      <<"T", "r", "u", "e">>, <<"t", "r", "u">>, <<"n", "u", "l", "l", "x">>, <<"~", "~">>,
      <<"5">>, <<"-", "5">>, <<"0", "0", "7">>, <<"1", "2", "0">>, <<"-", "0">>, <<"-">>,
      <<"1", ".", "5">>, <<"-", "1", ".", "5">>, <<"0", ".", "0", "5">>, <<".", "5">>,
      <<"-", ".", "5">>, <<"1", ".">>, <<".">>, <<"1", ".", "5", ".", "2">>, <<"1", "e", "5">>,
      <<"1", "2", "a">>, <<"+", "5">>, <<"5", "-">>, <<"a", "b", "c">>, <<"a", ":", "b">>,
      <<DQ, "q", DQ>>, <<SQ, "q", SQ>>, <<DQ, DQ>>, <<SQ, SQ>>, <<DQ>>, <<SQ>>,
      <<DQ, "q", SQ>>, <<SQ, "q", DQ>>, <<DQ, "q">>, <<"q", DQ>>, <<"q", SQ>>,
      <<DQ, "a", BS, DQ, "b", DQ>>, <<DQ, "5", DQ>>, <<SQ, "t", "r", "u", "e", SQ>>,
      <<DQ, SP, "q", SP, DQ>>, <<"a", DQ, "b">> }

\* the scalars of the values that are encoded and decoded again
LeafScalars ==
    {VNull, VBool(TRUE), VNum(FALSE, <<1>>, 1), VNum(FALSE, <<1, 5>>, 1), VNum(FALSE, <<1>>, 22)}
    \cup { VStr(s) : s \in Strings }

ItemScalars == {VStr(<<"x">>), VStr(<<"y">>), VNum(FALSE, <<1>>, 1)}

Keys == { <<"a">>, <<"b">>, <<"2">>, ItemsKey }

ScalarSequences == { VSeq(es) : es \in UNION { [1..m -> ItemScalars] : m \in 0..MaxSeqLen } }

Leaves == LeafScalars \cup ScalarSequences \cup {EmptyObject}

\* objects of one entry, of two scalar entries (built by assignment, so in
\* property order), and of one nested object
InputValues ==
    { ObjectOf(<<k>>, <<x>>) : k \in Keys, x \in Leaves }
    \cup { ObjectOf(<<k1, k2>>, <<x1, x2>>) :
              k1 \in Keys, k2 \in Keys \ {<<"a">>}, x1 \in ItemScalars, x2 \in {VNull, VStr(<<"x">>)} }
    \cup { ObjectOf(<<k1>>, <<ObjectOf(<<k2>>, <<x>>)>>) :
              k1 \in {<<"a">>, ItemsKey}, k2 \in {<<"b">>, <<"2">>}, x \in Leaves }
    \cup ScalarSequences \cup {EmptyObject, VStr(<<"x">>)}

\* elements of sequences handed to stringify: scalars, objects and arrays
MixedItems ==
    { VStr(<<"x">>), VStr(<<"a", ":", SP, "b">>), VNull, EmptyObject, EmptyArray,
      ObjectOf(<<<<"a">>>>, <<VStr(<<"x">>)>>),
      ObjectOf(<<<<"a">>, <<"b">>>>, <<VNum(FALSE, <<1>>, 1), VSeq(<<VStr(<<"x">>)>>)>>),
      ObjectOf(<<<<"a">>>>, <<ObjectOf(<<<<"b">>>>, <<VNull>>)>>),
      VSeq(<<VStr(<<"y">>)>>),
      VSeq(<<VSeq(<<VStr(<<"y">>)>>), ObjectOf(<<<<"b">>>>, <<VBool(TRUE)>>)>>) }

NestedSequences == { VSeq(es) : es \in UNION { [1..m -> MixedItems] : m \in 1..MaxSeqLen } }

ExampleList ==
    ObjectOf(<<<<"l", "i", "s", "t">>>>,
             <<VSeq(<<VNum(FALSE, <<1>>, 1), VNum(FALSE, <<2>>, 1), VNum(FALSE, <<3>>, 1)>>)>>)

\* the values handed to stringify alone
EncodeValues ==
    InputValues \cup NestedSequences
    \cup { ObjectOf(<<k>>, <<x>>) : k \in {<<"a">>, <<"2">>}, x \in NestedSequences }
    \cup { ObjectOf(<<<<"a">>>>, <<ObjectOf(<<<<"b">>>>, <<x>>)>>) : x \in NestedSequences }
    \cup { ObjectOf(<<<<"a">>, <<"b">>>>, <<x, VSeq(<<x>>)>>) : x \in MixedItems }
    \cup { ExampleList, VNull }

\* mappings with scalar values, the elements of a sequence under a key
ElementValues ==
    { VNum(FALSE, <<1>>, 1), VStr(<<"x">>), VNull, VStr(<<>>), VStr(<<"t", "r", "u", "e">>) }

ElementMaps ==
    { ObjectOf(<<<<"a">>>>, <<x>>) : x \in ElementValues }
    \cup { ObjectOf(<<<<"b">>>>, <<x>>) : x \in {VNum(FALSE, <<1>>, 1), VStr(<<"x">>)} }
    \cup { ObjectOf(<<<<"2">>>>, <<VStr(<<"y">>)>>),
           ObjectOf(<<<<"a">>, <<"b">>>>, <<VNum(FALSE, <<1>>, 1), VStr(<<"x">>)>>),
           ObjectOf(<<<<"b">>, <<"a">>>>, <<VStr(<<"y">>), VNull>>),
           EmptyObject }

MappingSequences == { VSeq(es) : es \in UNION { [1..m -> ElementMaps] : m \in 1..MaxSeqLen } }

\* a sequence of mappings under the key k, alone or before another entry
SequenceOfMappingsValues ==
    { ObjectOf(<<<<"k">>>>, <<x>>) : x \in MappingSequences }
    \cup { ObjectOf(<<<<"k">>, <<"z">>>>, <<x, VNum(FALSE, <<1>>, 1)>>) : x \in MappingSequences }

(***************************************************************************)
(* The state machine.  pc is "idle" before a call, "parsing" inside the    *)
(* loop of parse, "returned" after parse returned result, "thrown" after   *)
(* it raised, "formatted" and "coerced" for a scalar taken through         *)
(* formatValue and parseValue alone.                                       *)
(***************************************************************************)
Init ==
    /\ pc = "idle"
    /\ src = NoValue
    /\ text = <<>>
    /\ lines = <<>>
    /\ i = 1
    /\ heap = <<EmptyObject>>
    /\ stack = <<Frame(RootId, -1, NullKey)>>
    /\ currentArrayKey = NullKey
    /\ result = NoValue
    /\ cliPc = "idle"
    /\ argv = <<>>
    /\ command = <<>>
    /\ remaining = <<>>
    /\ argI = 1
    /\ options = EmptyObject
    /\ positionalArgs = <<>>
    /\ migPc = "idle"
    /\ migOptions = NoOptions
    /\ sourceConnector = NoConnector
    /\ targetConnector = NoConnector
    /\ migResult = NoResult
    /\ pending = NoError

DecoderState ==
    [lines |-> lines, i |-> i, heap |-> heap, stack |-> stack,
     currentArrayKey |-> currentArrayKey, thrown |-> FALSE]

\* the pending array key kept from the previous invocation
EnterParseKeepsKey(yamlString) ==
    LET st == ParseStart(yamlString)
    IN  /\ text' = yamlString
        /\ lines' = st.lines
        /\ i' = st.i
        /\ heap' = st.heap
        /\ stack' = st.stack
        /\ currentArrayKey' = currentArrayKey
        /\ result' = NoValue
        /\ pc' = "parsing"

\* parse(yamlString) is entered
EnterParse(yamlString) ==
    LET st == ParseStart(yamlString)
    IN  /\ text' = yamlString
        /\ lines' = st.lines
        /\ i' = st.i
        /\ heap' = st.heap
        /\ stack' = st.stack
        /\ currentArrayKey' = st.currentArrayKey
        /\ result' = NoValue
        /\ pc' = "parsing"

\* a caller hands a document to parse
StartParse ==
    /\ pc = "idle"
    /\ \E doc \in Documents : EnterParse(doc)
    /\ UNCHANGED <<src, cliVars, migVars>>

\* a caller hands a document of nested mappings to parse
StartLines ==
    /\ pc = "idle"
    /\ \E doc \in LineDocuments : EnterParse(doc)
    /\ UNCHANGED <<src, cliVars, migVars>>

\* a caller encodes a value and hands the text to parse
StartRoundTrip ==
    /\ pc = "idle"
    /\ \E value \in InputValues :
          /\ src' = value
          /\ EnterParse(stringify(value, 0))
    /\ UNCHANGED <<cliVars, migVars>>

\* one iteration of the for loop of parse
ParseStep ==
    /\ pc = "parsing"
    /\ i <= Len(lines)
    /\ LET st == ParseLine(DecoderState)
       IN  /\ heap' = st.heap
           /\ stack' = st.stack
           /\ currentArrayKey' = st.currentArrayKey
           /\ pc' = IF st.thrown THEN "thrown" ELSE "parsing"
           /\ i' = IF st.thrown THEN i ELSE i + 1
    /\ UNCHANGED <<src, text, lines, result, cliVars, migVars>>

\* return result
ParseReturn ==
    /\ pc = "parsing"
    /\ i > Len(lines)
    /\ result' = TreeOf(heap, Ref(RootId))
    /\ pc' = "returned"
    /\ UNCHANGED <<src, text, lines, i, heap, stack, currentArrayKey, cliVars, migVars>>

\* formatValue on a scalar
FormatScalar ==
    /\ pc = "idle"
    /\ \E x \in Scalars :
          /\ src' = x
          /\ text' = formatValue(x)
    /\ pc' = "formatted"
    /\ UNCHANGED <<lines, i, heap, stack, currentArrayKey, result, cliVars, migVars>>

\* parseValue on the formatted text
CoerceText ==
    /\ pc = "formatted"
    /\ result' = parseValue(text)
    /\ pc' = "coerced"
    /\ UNCHANGED <<src, text, lines, i, heap, stack, currentArrayKey, cliVars, migVars>>

\* decoding of documents
Next == StartParse \/ ParseStep \/ ParseReturn

Spec == Init /\ [][Next]_vars

\* decoding of documents of nested mappings
NextLines == StartLines \/ ParseStep \/ ParseReturn

SpecLines == Init /\ [][NextLines]_vars

\* documents and values of a sequence of invocations
CallDocuments ==
    { Join(ls) : ls \in
        { << <<"b", ":">>, <<"-", SP, "x">> >>,
          << <<"b", ":", SP, "1">>, <<"-", SP, "x">> >>,
          << <<"a", ":", SP, "1">> >>,
          << <<"a", ":">>, <<SP, SP, "-", SP, "y">>, <<"b", ":">> >>,
          << <<"n", "e", "s", "t", "e", "d", ":">>,
             <<SP, SP, "i", "n", "n", "e", "r", ":", SP, "5">> >>,
          << ItemsKey \o <<":", SP, "5">>, <<"-", SP, "x">> >>,
          << <<"-", SP, "x">> >>,
          << >> } }

CallValues ==
    { ExampleList, VSeq(<<VStr(<<"x">>)>>), ObjectOf(<<<<"b">>>>, <<VSeq(<<VStr(<<"x">>)>>)>>) }

\* parse is invoked again, after whatever ran before
CallParse ==
    /\ pc = "idle"
    /\ \E doc \in CallDocuments : EnterParse(doc)
    /\ UNCHANGED <<src, cliVars, migVars>>

\* stringify is invoked, after whatever ran before
CallStringify ==
    /\ pc = "idle"
    /\ \E obj \in CallValues :
          /\ src' = obj
          /\ text' = stringify(obj, 0)
    /\ pc' = "encoded"
    /\ UNCHANGED <<lines, i, heap, stack, currentArrayKey, result, cliVars, migVars>>

\* an invocation is over: its locals are garbage, the caller goes on
Finish ==
    /\ pc \in {"returned", "thrown", "encoded"}
    /\ pc' = "idle"
    /\ UNCHANGED <<src, text, lines, i, heap, stack, currentArrayKey, result, cliVars, migVars>>

\* invocations of parse and stringify one after another
NextCalls == CallParse \/ CallStringify \/ ParseStep \/ ParseReturn \/ Finish

SpecCalls == Init /\ [][NextCalls]_vars

\* parseArgs(argv) up to the loop
EnterParseArgs ==
    /\ cliPc = "idle"
    /\ \E a \in ArgVectors :
          /\ argv' = a
          /\ IF SliceArgs(a) = <<>>
             THEN /\ command' = HelpCommand
                  /\ remaining' = <<>>
                  /\ cliPc' = "returned"
             ELSE /\ command' = SliceArgs(a)[1]
                  /\ remaining' = Tail(SliceArgs(a))
                  /\ cliPc' = "scanning"
    /\ options' = EmptyObject
    /\ positionalArgs' = <<>>
    /\ argI' = 1
    /\ UNCHANGED <<yamlVars, migVars>>

\* one iteration of the for loop of parseArgs
ScanArg ==
    /\ cliPc = "scanning"
    /\ argI <= Len(remaining)
    /\ LET arg == remaining[argI]
       IN  IF StartsWith(arg, <<"-", "-">>)
           THEN IF TakesValue(remaining, argI)
                THEN /\ options' = ObjSet(options, SubstringFrom(arg, 2),
                                          OptionValue(remaining[argI + 1]))
                     /\ argI' = argI + 2
                     /\ UNCHANGED positionalArgs
                ELSE /\ options' = ObjSet(options, SubstringFrom(arg, 2), VBool(TRUE))
                     /\ argI' = argI + 1
                     /\ UNCHANGED positionalArgs
           ELSE IF StartsWith(arg, <<"-">>)
           THEN /\ options' = ObjSet(options, SubstringFrom(arg, 1), VBool(TRUE))
                /\ argI' = argI + 1
                /\ UNCHANGED positionalArgs
           ELSE /\ positionalArgs' = Append(positionalArgs, arg)
                /\ argI' = argI + 1
                /\ UNCHANGED options
    /\ UNCHANGED <<cliPc, argv, command, remaining, yamlVars, migVars>>

\* return { command, args: positionalArgs, options }
ReturnArgs ==
    /\ cliPc = "scanning"
    /\ argI > Len(remaining)
    /\ cliPc' = "returned"
    /\ UNCHANGED <<argv, command, remaining, argI, options, positionalArgs, yamlVars, migVars>>

\* command lines taken through parseArgs
NextCli == EnterParseArgs \/ ScanArg \/ ReturnArgs

SpecCli == Init /\ [][NextCli]_vars

\* a caller encodes a sequence of mappings under a key and hands the text to parse
StartCollapse ==
    /\ pc = "idle"
    /\ \E value \in SequenceOfMappingsValues :
          /\ src' = value
          /\ EnterParse(stringify(value, 0))
    /\ UNCHANGED <<cliVars, migVars>>

NextCollapse == StartCollapse \/ ParseStep \/ ParseReturn

SpecCollapse == Init /\ [][NextCollapse]_vars

\* migrate(options) up to the first await: validation and the two connectors
EnterMigrate ==
    /\ migPc = "idle"
    /\ \E srcNoSQL \in BOOLEAN, tgtNoSQL \in BOOLEAN, sourceErrors \in 0..1, targetErrors \in 0..1,
          createThrows \in BOOLEAN :
          /\ migOptions' = [sourceIsNoSQL |-> srcNoSQL, targetIsNoSQL |-> tgtNoSQL]
          /\ IF sourceErrors > 0 \/ targetErrors > 0
             THEN /\ migResult' = [FreshResult EXCEPT
                                     !.errors = ConfigErrors(sourceErrors, targetErrors)]
                  /\ migPc' = "returned"
                  /\ pending' = NoError
                  /\ sourceConnector' = NoConnector
                  /\ targetConnector' = NoConnector
             ELSE IF createThrows
             THEN /\ migResult' = FreshResult
                  /\ migPc' = "catch"
                  /\ pending' = "createConnector"
                  /\ sourceConnector' = NoConnector
                  /\ targetConnector' = NoConnector
             ELSE /\ migResult' = FreshResult
                  /\ migPc' = "connectSource"
                  /\ pending' = NoError
                  /\ sourceConnector' = NewConnector
                  /\ targetConnector' = NewConnector
    /\ UNCHANGED <<yamlVars, cliVars>>

\* await sourceConnector.connect()
ConnectSource ==
    /\ migPc = "connectSource"
    /\ sourceConnector' = [sourceConnector EXCEPT !.connectCalled = TRUE]
    /\ \E ok \in BOOLEAN :
          IF ok THEN migPc' = "connectTarget" /\ pending' = pending
          ELSE migPc' = "disconnectSource" /\ pending' = "connect"
    /\ UNCHANGED <<migOptions, targetConnector, migResult, yamlVars, cliVars>>

\* await targetConnector.connect()
ConnectTarget ==
    /\ migPc = "connectTarget"
    /\ targetConnector' = [targetConnector EXCEPT !.connectCalled = TRUE]
    /\ \E ok \in BOOLEAN :
          IF ok THEN migPc' = "migrating" /\ pending' = pending
          ELSE migPc' = "disconnectSource" /\ pending' = "connect"
    /\ UNCHANGED <<migOptions, sourceConnector, migResult, yamlVars, cliVars>>

\* lines 66-103: the migration of the kind the providers ask for, then success
Migrate ==
    /\ migPc = "migrating"
    /\ \E fetched \in BOOLEAN, outcomes \in UNION { [1..m -> BOOLEAN] : m \in 0..MaxTables } :
          LET assigned == ObjectAssign(migResult, MigrationOutcome(migOptions, fetched, outcomes))
          IN  migResult' = [assigned EXCEPT !.success = SuccessOf(assigned)]
    /\ migPc' = "disconnectSource"
    /\ UNCHANGED <<migOptions, sourceConnector, targetConnector, pending, yamlVars, cliVars>>

\* finally: await sourceConnector.disconnect()
DisconnectSource ==
    /\ migPc = "disconnectSource"
    /\ sourceConnector' = [sourceConnector EXCEPT !.disconnectCalled = TRUE]
    /\ \E ok \in BOOLEAN :
          IF ok THEN migPc' = "disconnectTarget" /\ pending' = pending
          ELSE migPc' = "catch" /\ pending' = "disconnect"
    /\ UNCHANGED <<migOptions, targetConnector, migResult, yamlVars, cliVars>>

\* finally: await targetConnector.disconnect(), then the exception in flight goes on
DisconnectTarget ==
    /\ migPc = "disconnectTarget"
    /\ targetConnector' = [targetConnector EXCEPT !.disconnectCalled = TRUE]
    /\ \E ok \in BOOLEAN :
          IF ok
          THEN /\ migPc' = IF pending = NoError THEN "returned" ELSE "catch"
               /\ pending' = pending
          ELSE migPc' = "catch" /\ pending' = "disconnect"
    /\ UNCHANGED <<migOptions, sourceConnector, migResult, yamlVars, cliVars>>

\* catch (error) { result.errors.push(...) } and return result
CatchAndReturn ==
    /\ migPc = "catch"
    /\ migResult' = CatchError(migResult)
    /\ pending' = NoError
    /\ migPc' = "returned"
    /\ UNCHANGED <<migOptions, sourceConnector, targetConnector, yamlVars, cliVars>>

NextMigrate ==
    \/ EnterMigrate \/ ConnectSource \/ ConnectTarget \/ Migrate
    \/ DisconnectSource \/ DisconnectTarget \/ CatchAndReturn

SpecMigrate == Init /\ [][NextMigrate]_vars

\* encoding of values followed by decoding
NextRoundTrip == StartRoundTrip \/ ParseStep \/ ParseReturn

SpecRoundTrip == Init /\ [][NextRoundTrip]_vars

\* stringify alone
Encode ==
    /\ pc = "idle"
    /\ \E obj \in EncodeValues :
          /\ src' = obj
          /\ text' = stringify(obj, 0)
    /\ pc' = "encoded"
    /\ UNCHANGED <<lines, i, heap, stack, currentArrayKey, result, cliVars, migVars>>

NextEncode == Encode

SpecEncode == Init /\ [][NextEncode]_vars

\* parseValue on a bare text
CoerceRaw ==
    /\ pc = "idle"
    /\ \E raw \in RawTexts :
          /\ text' = raw
          /\ result' = parseValue(raw)
    /\ pc' = "coerced"
    /\ UNCHANGED <<src, lines, i, heap, stack, currentArrayKey, cliVars, migVars>>

\* scalar coercion alone
NextScalar == FormatScalar \/ CoerceText \/ CoerceRaw

SpecScalar == Init /\ [][NextScalar]_vars

(***************************************************************************)
(* The kinds of physical lines the claims speak of, stated on the text of  *)
(* the line alone.                                                         *)
(***************************************************************************)
IsBlankLine(line) == \A j \in 1..Len(line) : line[j] \in WhiteSpace

IsCommentLine(line) == ~IsBlankLine(line) /\ Trim(line)[1] = "#"

IsItemLine(line) ==
    /\ ~IsBlankLine(line)
    /\ Len(Trim(line)) >= 2
    /\ Trim(line)[1] = "-"
    /\ Trim(line)[2] = SP

IsKeyValueLine(line) ==
    /\ ~IsBlankLine(line)
    /\ ~IsCommentLine(line)
    /\ ~IsItemLine(line)
    /\ \E j \in 2..Len(Trim(line)) : Trim(line)[j] = ":"

IsMalformedLine(line) ==
    /\ ~IsBlankLine(line)
    /\ ~IsCommentLine(line)
    /\ ~IsItemLine(line)
    /\ \A j \in 2..Len(Trim(line)) : Trim(line)[j] # ":"

KeyOf(line) == Trim(Substring(Trim(line), 0, IndexOf(Trim(line), ":")))

ValueOf(line) == Trim(SubstringFrom(Trim(line), IndexOf(Trim(line), ":") + 1))

PayloadOf(line) == Trim(SubstringFrom(Trim(line), 2))

\* the leading run of spaces and tabs of a line
LeadLength(line) ==
    IF \A j \in 1..Len(line) : line[j] \in {SP, TAB} THEN Len(line)
    ELSE (CHOOSE j \in 1..Len(line) :
             line[j] \notin {SP, TAB} /\ \A m \in 1..(j - 1) : line[m] \in {SP, TAB}) - 1

Returned == pc = "returned"

(***************************************************************************)
(* C1.  Round trip: for every value built from scalars, mappings of        *)
(* scalars (nested) and sequences of scalars, parse(stringify(v)) is v,    *)
(* keys and elements in their order; a list of scalars under a key is      *)
(* still a list of the same length.                                        *)
(***************************************************************************)
RoundTripEqual == Returned /\ src.t = "map" => result = src

(***************************************************************************)
(* C2.  A key line with an empty value that is followed by deeper-indented *)
(* sequence-item lines decodes to that key mapped directly to the          *)
(* Sequence of the coerced payloads, in document order.                    *)
(***************************************************************************)
\* the lines of a document without the empty last piece of a final '\n'
BodyLines(ls) == IF ls # <<>> /\ ls[Len(ls)] = <<>> THEN SubSeq(ls, 1, Len(ls) - 1) ELSE ls

IsKeyThenItems(ls) ==
    /\ Len(ls) >= 2
    /\ IsKeyValueLine(ls[1])
    /\ ValueOf(ls[1]) = <<>>
    /\ \A j \in 2..Len(ls) :
          IsItemLine(ls[j]) /\ getIndentLevel(ls[j]) > getIndentLevel(ls[1])

KeyThenItemsIsSequence ==
    Returned /\ IsKeyThenItems(BodyLines(lines))
    => result = VMap(<<KeyOf(lines[1])>>,
                     <<VSeq([j \in 1..(Len(BodyLines(lines)) - 1) |->
                                parseValue(PayloadOf(lines[j + 1]))])>>)

(***************************************************************************)
(* C3.  parse raises no fault, whatever the text.                          *)
(***************************************************************************)
ParseNeverThrows == pc # "thrown"

(***************************************************************************)
(* C4.  Whenever parse returns, the returned root is a Mapping; a document *)
(* of blank, comment and malformed lines only decodes to the empty         *)
(* Mapping.                                                                *)
(***************************************************************************)
OnlyIgnoredLines(ls) ==
    \A j \in 1..Len(ls) : IsBlankLine(ls[j]) \/ IsCommentLine(ls[j]) \/ IsMalformedLine(ls[j])

ReencodeIdempotent ==
    Returned /\ src.t = "map" => stringify(result, 0) = stringify(src, 0)

(***************************************************************************)
(* C6.  Quoting necessity: a String that contains ':' is emitted wrapped   *)
(* in double quotes and decodes back to the same string, also when it      *)
(* contains a double quote.                                                *)
(***************************************************************************)
IsColonStringEntry(v) ==
    /\ v.t = "map"
    /\ Len(v.k) = 1
    /\ v.v[1].t = "str"
    /\ Includes(v.v[1].s, ":")

ColonStringRoundTrip ==
    Returned /\ IsColonStringEntry(src)
    => /\ StartsWith(text, src.k[1] \o <<":", SP, DQ>>)
       /\ EndsWith(text, <<DQ, NL>>)
       /\ result = src

(***************************************************************************)
(* C7.  Key order: a key-value line inserts a new key after the keys       *)
(* already in its mapping (order of first appearance) and leaves the order *)
(* alone for a key that is there; stringify emits the entries in that      *)
(* order, so the key order is the same after decode, encode and decode.    *)
(***************************************************************************)
TargetId(line) == Unwind(stack, getIndentLevel(line))[Len(Unwind(stack, getIndentLevel(line)))].obj

InsertsInOrderOfAppearance ==
    pc = "parsing" /\ i <= Len(lines) /\ IsKeyValueLine(lines[i]) /\ pc' = "parsing"
    => heap'[TargetId(lines[i])].k =
          IF HasKey(heap[TargetId(lines[i])], KeyOf(lines[i]))
          THEN heap[TargetId(lines[i])].k
          ELSE Append(heap[TargetId(lines[i])].k, KeyOf(lines[i]))

KeyOrderKept ==
    /\ [][InsertsInOrderOfAppearance]_vars
    /\ [](Returned => parse(stringify(result, 0)).t = "map"
                    /\ parse(stringify(result, 0)).k = result.k)

(***************************************************************************)
(* C8.  Duplicate keys: when a key appears more than once in one mapping   *)
(* (here the root: key-value lines at indentation 0), the decoded mapping  *)
(* holds one entry for it, whose value is the one the last occurrence      *)
(* gives.                                                                  *)
(***************************************************************************)
RootLinesOf(key) ==
    { j \in 1..Len(lines) :
         IsKeyValueLine(lines[j]) /\ getIndentLevel(lines[j]) = 0 /\ KeyOf(lines[j]) = key }

LastOf(S) == CHOOSE j \in S : \A m \in S : m <= j

\* nothing after line j but blank, comment and malformed lines
NothingFollows(j) == OnlyIgnoredLines(SubSeq(lines, j + 1, Len(lines)))

LastDuplicateWins ==
    Returned
    => \A key \in { KeyOf(lines[j]) : j \in { m \in 1..Len(lines) : IsKeyValueLine(lines[m]) } } :
          Cardinality(RootLinesOf(key)) >= 2
          => /\ Cardinality({ j \in 1..Len(result.k) : result.k[j] = key }) = 1
             /\ ValueOf(lines[LastOf(RootLinesOf(key))]) # <<>>
                => ObjGet(result, key) = parseValue(ValueOf(lines[LastOf(RootLinesOf(key))]))
             /\ ValueOf(lines[LastOf(RootLinesOf(key))]) = <<>>
                => /\ ObjGet(result, key).t \in {"map", "seq"}
                   /\ NothingFollows(LastOf(RootLinesOf(key)))
                      => ObjGet(result, key) = EmptyObject

(***************************************************************************)
(* C9.  Indentation robustness: a document decodes to the same value when  *)
(* each leading tab is replaced by two spaces; the indentation width of a  *)
(* line is its number of leading spaces plus twice its number of leading   *)
(* tabs.                                                                   *)
(***************************************************************************)
DetabLine(line) ==
    Concat([j \in 1..LeadLength(line) |-> IF line[j] = TAB THEN <<SP, SP>> ELSE <<line[j]>>])
    \o SubSeq(line, LeadLength(line) + 1, Len(line))

Detab(doc) == Join([j \in 1..Len(Split(doc)) |-> DetabLine(Split(doc)[j])])

WidthOf(line) ==
    Cardinality({ j \in 1..LeadLength(line) : line[j] = SP })
    + 2 * Cardinality({ j \in 1..LeadLength(line) : line[j] = TAB })

CoercionInvertsFormat ==
    pc = "coerced" /\ src.t \in {"null", "bool", "num"} => result = src

(***************************************************************************)
(* The shapes of bare texts the claims speak of, stated on the text alone. *)
(***************************************************************************)
DigitSet == {"0", "1", "2", "3", "4", "5", "6", "7", "8", "9"}

OnlyDigits(s) == \A j \in 1..Len(s) : s[j] \in DigitSet

Unsigned(s) == IF s # <<>> /\ s[1] = "-" THEN SubSeq(s, 2, Len(s)) ELSE s

\* -?digits
HasIntegerShape(s) == Unsigned(s) # <<>> /\ OnlyDigits(Unsigned(s))

\* -?digits.digits with at least minInt digits before the point and one after
HasDecimalShape(s, minInt) ==
    \E p \in 1..Len(Unsigned(s)) :
       /\ Unsigned(s)[p] = "."
       /\ p - 1 >= minInt
       /\ OnlyDigits(SubSeq(Unsigned(s), 1, p - 1))
       /\ p < Len(Unsigned(s))
       /\ OnlyDigits(SubSeq(Unsigned(s), p + 1, Len(Unsigned(s))))

IsKeywordText(s) ==
    s \in { <<"t", "r", "u", "e">>, <<"f", "a", "l", "s", "e">>, <<"n", "u", "l", "l">>, <<"~">> }

\* a number without fractional digits
IsIntegral(x) == x.t = "num" /\ x.n >= Len(x.d)

\* parseValue was applied to the bare text in text
CoercedRaw == pc = "coerced" /\ src = NoValue

\* the classification of text, with at least minInt digits before a decimal point
ClassifiedAs(minInt) ==
    IF text = <<"t", "r", "u", "e">> THEN result = VBool(TRUE)
    ELSE IF text = <<"f", "a", "l", "s", "e">> THEN result = VBool(FALSE)
    ELSE IF text \in {<<"n", "u", "l", "l">>, <<"~">>} THEN result = VNull
    ELSE IF text = <<>> THEN result = VStr(<<>>)
    ELSE IF HasIntegerShape(text) THEN IsIntegral(result)
    ELSE IF HasDecimalShape(text, minInt) THEN result.t = "num"
    ELSE result.t \notin {"bool", "null", "num"}

Scenario1 ==
    <<"a", ":", SP, "1", NL, "b", ":", SP, "t", "r", "u", "e", NL,
      "c", ":", SP, "n", "u", "l", "l", NL>>

Scenario1Decoded ==
    parse(Scenario1)
    = VMap(<<<<"a">>, <<"b">>, <<"c">>>>, <<VNum(FALSE, <<1>>, 1), VBool(TRUE), VNull>>)

(***************************************************************************)
(* C11.  parseValue classifies a bare text: true and false are Bool, null  *)
(* and ~ are Null, the empty text is the empty String, -?digits is an      *)
(* integral Number, -?digits.digits with digits on both sides of the point *)
(* is a Number, and no other text becomes a Bool, Null or Number.          *)
(***************************************************************************)
CoerceClassifies == (CoercedRaw => ClassifiedAs(1)) /\ Scenario1Decoded

\* C11 as amended: the digits before the decimal point are optional
CoerceClassifiesOptionalInt == (CoercedRaw => ClassifiedAs(0)) /\ Scenario1Decoded

CoerceClassifiesWitness ==
    /\ CoercedRaw
    /\ text = <<"-", ".", "5">>
    /\ result = VNum(TRUE, <<5>>, 0)

(***************************************************************************)
(* C12.  parseValue strips the quotes only from a text enclosed in a       *)
(* matching pair of double or of single quotes (two quote characters);     *)
(* every other text that is no keyword and no number, a lone quote         *)
(* included, is returned verbatim as a String.                             *)
(***************************************************************************)
IsQuotedPair(s) == Len(s) >= 2 /\ s[1] = s[Len(s)] /\ s[1] \in {DQ, SQ}

QuotesStrippedFromPairsOnly ==
    CoercedRaw /\ ~IsKeywordText(text) /\ ~HasIntegerShape(text) /\ ~HasDecimalShape(text, 0)
    => result = IF IsQuotedPair(text) THEN VStr(SubSeq(text, 2, Len(text) - 1)) ELSE VStr(text)

(***************************************************************************)
(* C13.  formatValue renders null as "null", a Bool or Number as its       *)
(* textual form, and a String raw unless it contains ':', '#' or a newline *)
(* or starts with '-', '[' or '{'; exactly then it is wrapped in double     *)
(* quotes with every embedded double quote escaped as backslash-quote.     *)
(***************************************************************************)
MustBeQuoted(s) ==
    \/ \E j \in 1..Len(s) : s[j] \in {":", "#", NL}
    \/ s # <<>> /\ s[1] \in {"-", "[", "{"}

\* s with a backslash put before every double quote
Escaped(s) == Concat([j \in 1..Len(s) |-> IF s[j] = DQ THEN <<BS, s[j]>> ELSE <<s[j]>>])

FormatRendersScalars ==
    pc = "formatted"
    => text = CASE src.t = "null" -> <<"n", "u", "l", "l">>
                [] src.t = "bool" /\ src.b -> <<"t", "r", "u", "e">>
                [] src.t = "bool" /\ ~src.b -> <<"f", "a", "l", "s", "e">>
                [] src.t = "num" -> NumberToString(src)
                [] src.t = "str" /\ MustBeQuoted(src.s) -> <<DQ>> \o Escaped(src.s) \o <<DQ>>
                [] src.t = "str" /\ ~MustBeQuoted(src.s) -> src.s

FormatRendersScalarsWitness ==
    /\ pc = "formatted"
    /\ src = VStr(<<"#", DQ>>)
    /\ text = <<DQ, "#", BS, DQ, DQ>>

(***************************************************************************)
(* The rendering the claims describe: every line at 2 spaces per nesting   *)
(* level; a scalar after "key: " or "- ", a nested value on the lines      *)
(* after "key:" or "- ", one level deeper.                                 *)
(***************************************************************************)
IndentOf(level) == [j \in 1..(2 * level) |-> SP]

LineAt(level, body) == IndentOf(level) \o body \o <<NL>>

IsNested(x) == x.t \in {"map", "seq"}

RECURSIVE Render(_, _)
Render(x, level) ==
    IF x.t = "map"
    THEN Concat([j \in 1..Len(x.k) |->
            IF IsNested(x.v[j])
            THEN LineAt(level, x.k[j] \o <<":">>) \o Render(x.v[j], level + 1)
            ELSE LineAt(level, x.k[j] \o <<":", SP>> \o formatValue(x.v[j]))])
    ELSE Concat([j \in 1..Len(x.e) |->
            IF IsNested(x.e[j])
            THEN LineAt(level, <<"-", SP>>) \o Render(x.e[j], level + 1)
            ELSE LineAt(level, <<"-", SP>> \o formatValue(x.e[j]))])

Encoded == pc = "encoded"

RECURSIVE HoldsSequence(_)
\* x is a sequence or holds one at some depth
HoldsSequence(x) ==
    \/ x.t = "seq"
    \/ x.t = "map" /\ \E j \in 1..Len(x.v) : HoldsSequence(x.v[j])

(***************************************************************************)
(* C14.  stringify renders every entry of a Mapping on its own line at 2   *)
(* spaces per nesting level: "key: " and the formatted value for a scalar, *)
(* "key:" alone and then the nested rendering one level deeper for a       *)
(* Mapping or Sequence; {list: [1, 2, 3]} gives the four lines "list:",    *)
(* "  - 1", "  - 2", "  - 3".                                              *)
(***************************************************************************)
MappingEntriesRendered == Encoded /\ src.t = "map" => text = Render(src, 0)

MappingEntriesRenderedWitness ==
    /\ Encoded
    /\ src = ExampleList
    /\ text = <<"l", "i", "s", "t", ":", NL, SP, SP, "-", SP, "1", NL,
                SP, SP, "-", SP, "2", NL, SP, SP, "-", SP, "3", NL>>

(***************************************************************************)
(* C15.  stringify renders every element of a Sequence on its own line     *)
(* after "- " at the sequence's indent, in element order; an element that  *)
(* is a Mapping or Sequence is a line of "- " alone followed by its        *)
(* rendering exactly one level deeper than the dash line, for a root       *)
(* sequence and for a sequence under a mapping key alike.                  *)
(***************************************************************************)
SequenceElementsRendered == Encoded /\ HoldsSequence(src) => text = Render(src, 0)

SequenceElementsRenderedWitness ==
    /\ Encoded
    /\ src = ObjectOf(<<<<"a">>>>, <<VSeq(<<ObjectOf(<<<<"a">>>>, <<VStr(<<"x">>)>>),
                                          VStr(<<"x">>)>>)>>)
    /\ text = <<"a", ":", NL, SP, SP, "-", SP, NL, SP, SP, SP, SP, "a", ":", SP, "x", NL,
                SP, SP, "-", SP, "x", NL>>

(***************************************************************************)
(* Key-value lines, stated on the text of the line: neither blank nor      *)
(* comment nor item, with a first ':' that is not the first character.     *)
(***************************************************************************)
FirstColon(s) == CHOOSE p \in 1..Len(s) : s[p] = ":" /\ \A q \in 1..(p - 1) : s[q] # ":"

HasColon(s) == \E p \in 1..Len(s) : s[p] = ":"

IsPlainLine(line) == ~IsBlankLine(line) /\ ~IsCommentLine(line) /\ ~IsItemLine(line)

IsEntryLine(line) == IsPlainLine(line) /\ HasColon(Trim(line)) /\ Trim(line)[1] # ":"

LeftOfColon(line) == Trim(SubSeq(Trim(line), 1, FirstColon(Trim(line)) - 1))

RightOfColon(line) == Trim(SubSeq(Trim(line), FirstColon(Trim(line)) + 1, Len(Trim(line))))

\* the loop of parse is about to process line i
AtLine == pc = "parsing" /\ i <= Len(lines)

\* the nearest still-open frame whose indent is strictly less than w
OpenFrame(w) ==
    CHOOSE f \in 1..Len(stack) :
       stack[f].indent < w /\ \A m \in (f + 1)..Len(stack) : stack[m].indent >= w

Sentinel == [obj |-> 1, indent |-> -1, key |-> <<>>]

(***************************************************************************)
(* C17.  Before the entry of a key-value line at indentation w is          *)
(* inserted, frames are popped while the top frame's indent is >= w and    *)
(* the sentinel frame is never popped: the entry goes into the container   *)
(* of the nearest still-open frame of indent < w and no other container    *)
(* changes.  "nested:\n  inner: 5\n" gives {nested: {inner: 5}}.            *)
(***************************************************************************)
InsertsIntoOpenFrame ==
    AtLine /\ IsEntryLine(lines[i])
    => LET f == OpenFrame(WidthOf(lines[i]))
           c == stack[f].obj
       IN  /\ Len(stack') \in {f, f + 1}
           /\ SubSeq(stack', 1, f) = SubSeq(stack, 1, f)
           /\ \E j \in 1..Len(heap'[c].k) : heap'[c].k[j] = LeftOfColon(lines[i])
           /\ \A id \in 1..Len(heap) : id # c => heap'[id] = heap[id]
           /\ \A j \in 1..Len(heap[c].k) :
                 heap[c].k[j] # LeftOfColon(lines[i])
                 => \E m \in 1..Len(heap'[c].k) :
                       heap'[c].k[m] = heap[c].k[j] /\ heap'[c].v[m] = heap[c].v[j]

NestedExample ==
    text = <<"n", "e", "s", "t", "e", "d", ":", NL, SP, SP, "i", "n", "n", "e", "r", ":", SP, "5", NL>>
    /\ Returned
    => result = VMap(<<<<"n", "e", "s", "t", "e", "d">>>>,
                     <<VMap(<<<<"i", "n", "n", "e", "r">>>>, <<VNum(FALSE, <<5>>, 1)>>)>>)

\* a later line at indentation 0 is inserted into the root
RootAfterNested ==
    Returned
    /\ lines = << <<"n", "e", "s", "t", "e", "d", ":">>,
                  <<SP, SP, "i", "n", "n", "e", "r", ":", SP, "5">>, <<"a", ":", SP, "1">> >>
    => result = VMap(<<<<"n", "e", "s", "t", "e", "d">>, <<"a">>>>,
                     <<VMap(<<<<"i", "n", "n", "e", "r">>>>, <<VNum(FALSE, <<5>>, 1)>>),
                       VNum(FALSE, <<1>>, 1)>>)

UnwindsToOpenFrame ==
    /\ [][InsertsIntoOpenFrame]_vars
    /\ [](pc \in {"parsing", "returned", "thrown"} => stack # <<>> /\ stack[1] = Sentinel)
    /\ []NestedExample
    /\ []RootAfterNested

\* c's frame (indent 4) is popped, nested's (indent 0) is kept, then a is put in the root
UnwindsToOpenFrameWitness ==
    /\ Returned
    /\ lines = << <<"n", "e", "s", "t", "e", "d", ":">>, <<SP, SP, SP, SP, "c", ":">>,
                  <<SP, SP, "i", "n", "n", "e", "r", ":", SP, "5">> >>
    /\ result = VMap(<<<<"n", "e", "s", "t", "e", "d">>>>,
                     <<VMap(<<<<"c">>, <<"i", "n", "n", "e", "r">>>>,
                            <<EmptyObject, VNum(FALSE, <<5>>, 1)>>)>>)

(***************************************************************************)
(* C18.  A line that is neither blank nor comment nor sequence item and    *)
(* whose trimmed form has ':' past its first character is split at the     *)
(* first ':' only: the trimmed left part is the key, the trimmed rest,     *)
(* further ':' included, the value text.  A line whose trimmed form starts *)
(* with ':' or holds no ':' is not a key-value line: it changes nothing.   *)
(***************************************************************************)
SplitsAtFirstColon ==
    AtLine /\ IsPlainLine(lines[i])
    => IF IsEntryLine(lines[i])
       THEN LET c == stack[OpenFrame(WidthOf(lines[i]))].obj
            IN  \E j \in 1..Len(heap'[c].k) :
                   /\ heap'[c].k[j] = LeftOfColon(lines[i])
                   /\ IF RightOfColon(lines[i]) = <<>>
                      THEN heap'[c].v[j].t = "ref" /\ heap'[heap'[c].v[j].id] = EmptyObject
                      ELSE heap'[c].v[j] = parseValue(RightOfColon(lines[i]))
       ELSE UNCHANGED <<heap, stack, currentArrayKey>>

SplitAtFirstColonOnly == [][SplitsAtFirstColon]_vars

SplitAtFirstColonOnlyWitness ==
    /\ Returned
    /\ lines = << <<":", "a", ":", SP, "b">>, <<SP, SP, "k", SP, ":", SP, "u", ":", "v">> >>
    /\ result = VMap(<<<<"k">>>>, <<VStr(<<"u", ":", "v">>)>>)

(***************************************************************************)
(* C20.  When a key-value line has an empty value and the very next        *)
(* physical line starts with "- ", the key becomes the pending array key,  *)
(* an empty placeholder is stored under it and no frame is pushed: the     *)
(* stack after the line is the unwound stack.                              *)
(***************************************************************************)
IsPendingKeyLine ==
    /\ AtLine
    /\ IsEntryLine(lines[i])
    /\ RightOfColon(lines[i]) = <<>>
    /\ i + 1 <= Len(lines)
    /\ IsItemLine(lines[i + 1])

PendingKeyStep ==
    IsPendingKeyLine
    => LET f == OpenFrame(WidthOf(lines[i]))
           c == stack[f].obj
       IN  /\ currentArrayKey' = LeftOfColon(lines[i])
           /\ \E j \in 1..Len(heap'[c].k) :
                 /\ heap'[c].k[j] = LeftOfColon(lines[i])
                 /\ heap'[c].v[j].t = "ref"
                 /\ heap'[heap'[c].v[j].id] \in {EmptyObject, EmptyArray}
           /\ stack' = SubSeq(stack, 1, f)

PendingKeyPushesNoFrame == [][PendingKeyStep]_vars

(***************************************************************************)
(* C16.  parse and stringify hold no state between invocations: whatever   *)
(* invocations ran before, parse(text) returns (or raises) what it does on *)
(* a first invocation, and stringify(value) the same text.                 *)
(***************************************************************************)
InvocationsIndependent ==
    /\ Returned => result = parse(text)
    /\ pc = "thrown" => parse(text) = Thrown
    /\ pc = "encoded" => text = stringify(src, 0)

\* "b: 1\n- x" decoded after an encode that followed other invocations
InvocationsIndependentWitness ==
    /\ Returned
    /\ src = ExampleList
    /\ lines = << <<"b", ":", SP, "1">>, <<"-", SP, "x">> >>
    /\ result = VMap(<<<<"b">>, ItemsKey>>, <<VNum(FALSE, <<1>>, 1), VSeq(<<VStr(<<"x">>)>>)>>)

(***************************************************************************)
(* Command-line tokens, stated on the text of the token.                   *)
(***************************************************************************)
StartsWithDash(tok) == tok # <<>> /\ tok[1] = "-"

IsLongOption(tok) == Len(tok) >= 2 /\ tok[1] = "-" /\ tok[2] = "-"

NameOf(tok) == SubSeq(tok, 3, Len(tok))

HasComma(tok) == \E p \in 1..Len(tok) : tok[p] = ","

\* the parts of tok between its commas, cut at the last comma first
RECURSIVE CommaParts(_)
CommaParts(tok) ==
    IF HasComma(tok)
    THEN LET p == CHOOSE q \in 1..Len(tok) :
                     tok[q] = "," /\ \A r \in (q + 1)..Len(tok) : tok[r] # ","
         IN  CommaParts(SubSeq(tok, 1, p - 1)) \o <<SubSeq(tok, p + 1, Len(tok))>>
    ELSE <<tok>>

\* what is stored for the value token tok
StoredFor(tok) ==
    IF HasComma(tok)
    THEN [t |-> "seq",
          e |-> [j \in 1..Len(CommaParts(tok)) |-> [t |-> "str", s |-> Trim(CommaParts(tok)[j])]]]
    ELSE [t |-> "str", s |-> tok]

\* obj holds val under name
Holds(obj, name, val) == \E j \in 1..Len(obj.k) : obj.k[j] = name /\ obj.v[j] = val

\* obj2 holds every entry of obj1 of another name
KeepsOthers(obj1, obj2, name) ==
    \A j \in 1..Len(obj1.k) : obj1.k[j] # name => Holds(obj2, obj1.k[j], obj1.v[j])

Scanning == cliPc = "scanning" /\ argI <= Len(remaining)

FollowedByValue == argI < Len(remaining) /\ ~StartsWithDash(remaining[argI + 1])

ScansToken ==
    Scanning
    => IF IsLongOption(remaining[argI])
       THEN /\ IF FollowedByValue
               THEN /\ Holds(options', NameOf(remaining[argI]), StoredFor(remaining[argI + 1]))
                    /\ argI' = argI + 2
               ELSE /\ Holds(options', NameOf(remaining[argI]), [t |-> "bool", b |-> TRUE])
                    /\ argI' = argI + 1
            /\ KeepsOthers(options, options', NameOf(remaining[argI]))
            /\ positionalArgs' = positionalArgs
       ELSE IF ~StartsWithDash(remaining[argI])
       THEN /\ positionalArgs' = Append(positionalArgs, remaining[argI])
            /\ options' = options
            /\ argI' = argI + 1
       ELSE /\ positionalArgs' = positionalArgs
            /\ argI' = argI + 1

CommandTaken ==
    cliPc # "idle"
    => IF Len(argv) <= 2
       THEN /\ cliPc = "returned"
            /\ command = <<"h", "e", "l", "p">>
            /\ positionalArgs = <<>>
            /\ options.k = <<>>
       ELSE /\ command = argv[3]
            /\ remaining = SubSeq(argv, 4, Len(argv))

\* nothing is stored before the scan starts, and the scan goes on to the end
ScanWhole ==
    /\ cliPc = "scanning" /\ argI = 1 => options.k = <<>> /\ positionalArgs = <<>>
    /\ cliPc = "returned" /\ Len(argv) > 2 => argI > Len(remaining)

NextIsItem == i + 1 <= Len(lines) /\ IsItemLine(lines[i + 1])

LeafOrFrame ==
    AtLine /\ IsEntryLine(lines[i])
    => LET f == OpenFrame(WidthOf(lines[i]))
           c == stack[f].obj
       IN  IF RightOfColon(lines[i]) # <<>>
           THEN /\ Holds(heap'[c], LeftOfColon(lines[i]), parseValue(RightOfColon(lines[i])))
                /\ stack' = SubSeq(stack, 1, f)
                /\ Len(heap') = Len(heap)
           ELSE ~NextIsItem
                => /\ Len(heap') = Len(heap) + 1
                   /\ heap'[Len(heap')] = [t |-> "map", k |-> <<>>, v |-> <<>>]
                   /\ Holds(heap'[c], LeftOfColon(lines[i]), [t |-> "ref", id |-> Len(heap')])
                   /\ Len(stack') = f + 1
                   /\ SubSeq(stack', 1, f) = SubSeq(stack, 1, f)
                   /\ stack'[f + 1].obj = Len(heap')
                   /\ stack'[f + 1].indent = WidthOf(lines[i])

KeyValueLeafOrFrame == [][LeafOrFrame]_vars

KeyValueLeafOrFrameWitness ==
    /\ Returned
    /\ lines = << <<"n", "e", "s", "t", "e", "d", ":">>,
                  <<SP, SP, SP, SP, "c", ":">>,
                  <<SP, SP, "i", "n", "n", "e", "r", ":", SP, "5">> >>
    /\ Len(stack) = 2
    /\ stack[2].obj = 2
    /\ stack[2].indent = 0
    /\ heap[2].k = <<<<"c">>, <<"i", "n", "n", "e", "r">>>>

(***************************************************************************)
(* C26.  During a decode the frame stack is never empty, its bottom frame  *)
(* is the sentinel (root mapping, indent -1), and the indents of the       *)
(* frames increase strictly from bottom to top after every line.           *)
(***************************************************************************)
StackIndentsIncrease ==
    pc \in {"parsing", "returned", "thrown"}
    => /\ Len(stack) >= 1
       /\ stack[1].obj = 1
       /\ stack[1].indent = -1
       /\ \A j \in 1..(Len(stack) - 1) : stack[j].indent < stack[j + 1].indent

\* the frame of c (indent 4) gave way to the frame of b (indent 2)
StackIndentsIncreaseWitness ==
    /\ Returned
    /\ lines = << <<"n", "e", "s", "t", "e", "d", ":">>,
                  <<SP, SP, SP, SP, "c", ":">>,
                  <<"b", ":">> >>
    /\ Len(stack) = 2
    /\ stack[2].key = <<"b">>

(***************************************************************************)
(* C24.  Blank lines, comment lines (trimmed form starting with '#') and   *)
(* malformed lines (no sequence item and no ':' past the first character)  *)
(* leave the decoder state unchanged: no frame is popped or pushed, no     *)
(* container changes, the pending array key stays.                         *)
(***************************************************************************)
IgnoredLineStep ==
    AtLine /\ (IsBlankLine(lines[i]) \/ IsCommentLine(lines[i]) \/ IsMalformedLine(lines[i]))
    => /\ stack' = stack
       /\ heap' = heap
       /\ currentArrayKey' = currentArrayKey
       /\ pc' # "thrown"

IgnoredLinesChangeNothing == [][IgnoredLineStep]_vars

\* the pending key a survives a blank, a comment and a malformed line
IgnoredLinesChangeNothingWitness ==
    /\ pc = "parsing"
    /\ i = 5
    /\ lines = << <<"a", ":">>, <<"-", SP, "x">>, <<>>, <<"#", SP, "k", ":", SP, "1">> >>
    /\ currentArrayKey = <<"a">>
    /\ Len(heap) = 3

(***************************************************************************)
(* C22.  A sequence-item line converts a value into a Sequence only when   *)
(* it is the empty placeholder opened under the current mapping by the     *)
(* immediately preceding key-value line; it never replaces or discards a   *)
(* scalar, a non-empty Mapping or a value stored by an earlier, unrelated  *)
(* key line, whatever pending array key was recorded earlier in the scan.  *)
(***************************************************************************)
\* the key-value line that precedes line i most closely, 0 when there is none
PrecedingEntry ==
    IF \E m \in 1..(i - 1) : IsKeyValueLine(lines[m])
    THEN CHOOSE m \in 1..(i - 1) :
            IsKeyValueLine(lines[m]) /\ \A n \in (m + 1)..(i - 1) : ~IsKeyValueLine(lines[n])
    ELSE 0

\* entry j of container id is the empty placeholder of the preceding key-value line
IsOpenPlaceholder(id, j) ==
    /\ PrecedingEntry # 0
    /\ ValueOf(lines[PrecedingEntry]) = <<>>
    /\ heap[id].k[j] = KeyOf(lines[PrecedingEntry])
    /\ id = stack[OpenFrame(WidthOf(lines[i]))].obj
    /\ heap[id].v[j].t = "ref"
    /\ heap[heap[id].v[j].id] = [t |-> "map", k |-> <<>>, v |-> <<>>]

ItemKeepsValues ==
    AtLine /\ IsItemLine(lines[i])
    => \A id \in 1..Len(heap) :
          heap[id].t = "map"
          => \A j \in 1..Len(heap[id].k) :
                ~IsOpenPlaceholder(id, j) => Holds(heap'[id], heap[id].k[j], heap[id].v[j])

ItemsConvertOnlyPlaceholder == [][ItemKeepsValues]_vars

(***************************************************************************)
(* C23.  Every element of every Sequence of a decoded value is a scalar    *)
(* (Null, Bool, Number or String): an item line appends the coerced scalar *)
(* of its payload only, never a Mapping or Sequence, and no later line     *)
(* adds entries to an element.                                             *)
(***************************************************************************)
ScalarTags == {"null", "bool", "num", "str"}

RECURSIVE ElementsAreScalars(_)
ElementsAreScalars(x) ==
    IF x.t = "seq" THEN \A j \in 1..Len(x.e) : x.e[j].t \in ScalarTags
    ELSE IF x.t = "map" THEN \A j \in 1..Len(x.v) : ElementsAreScalars(x.v[j])
    ELSE TRUE

SequencesHoldScalars ==
    /\ Returned => ElementsAreScalars(result)
    /\ pc \in {"parsing", "returned", "thrown"}
       => \A id \in 1..Len(heap) :
             heap[id].t = "seq" => \A j \in 1..Len(heap[id].e) : heap[id].e[j].t \in ScalarTags

SequencesHoldScalarsWitness ==
    /\ Returned
    /\ lines = << <<"b", ":">>, <<"-", SP, "u", ":", SP, "v">>,
                  <<SP, SP, "k", SP, ":", SP, "u", ":", "v">> >>
    /\ result = [t |-> "map", k |-> <<<<"b">>, <<"k">>>>,
                 v |-> <<[t |-> "seq", e |-> <<[t |-> "str", s |-> <<"u", ":", SP, "v">>]>>],
                         [t |-> "str", s |-> <<"u", ":", "v">>]>>]

(***************************************************************************)
(* C29.  Sequence items with no key to attach to are collected under the   *)
(* key "items": a document of sequence-item lines only, all at one         *)
(* indentation, decodes to a root Mapping with the single key "items"      *)
(* holding the Sequence of the coerced payloads in document order.         *)
(***************************************************************************)
OnlyItemLines(ls) ==
    /\ ls # <<>>
    /\ \A j \in 1..Len(ls) : IsItemLine(ls[j]) /\ WidthOf(ls[j]) = WidthOf(ls[1])

ItemsCollected ==
    Returned /\ OnlyItemLines(BodyLines(lines))
    => result = [t |-> "map", k |-> <<<<"i", "t", "e", "m", "s">>>>,
                 v |-> <<[t |-> "seq",
                          e |-> [j \in 1..Len(BodyLines(lines)) |->
                                    parseValue(PayloadOf(BodyLines(lines)[j]))]]>>]

ItemsCollectedWitness ==
    /\ Returned
    /\ lines = << <<"-", SP, "y">>, <<"-", SP, "1">>, <<>> >>
    /\ result = [t |-> "map", k |-> <<<<"i", "t", "e", "m", "s">>>>,
                 v |-> <<[t |-> "seq", e |-> <<[t |-> "str", s |-> <<"y">>],
                                               [t |-> "num", neg |-> FALSE, d |-> <<1>>, n |-> 1]>>]>>]

(***************************************************************************)
(* C27.  Round trip without sequences: a value built only from nested      *)
(* Mappings (empty ones allowed) whose leaves are Null, Bool, integer      *)
(* Numbers or plain Strings, under distinct plain non-numeric keys, is     *)
(* decoded from its encoding unchanged, key order included.  A plain       *)
(* String is non-empty, has no leading or trailing whitespace, no ':',     *)
(* '#', quote or newline, does not start with '-', '[' or '{' and is not   *)
(* spelled like true, false, null, ~ or a number.                          *)
(***************************************************************************)
IsPlainString(s) ==
    /\ s # <<>>
    /\ s[1] \notin WhiteSpace \cup {"-", "[", "{"}
    /\ s[Len(s)] \notin WhiteSpace
    /\ \A j \in 1..Len(s) : s[j] \notin {":", "#", DQ, SQ, NL}
    /\ ~IsKeywordText(s)
    /\ ~HasIntegerShape(s)
    /\ ~HasDecimalShape(s, 0)

RECURSIVE IsPlainMapping(_)
IsPlainMapping(x) ==
    /\ x.t = "map"
    /\ \A j \in 1..Len(x.k) : IsPlainString(x.k[j])
    /\ \A j, m \in 1..Len(x.k) : j # m => x.k[j] # x.k[m]
    /\ \A j \in 1..Len(x.v) :
          \/ x.v[j].t \in {"null", "bool"}
          \/ IsIntegral(x.v[j])
          \/ x.v[j].t = "str" /\ IsPlainString(x.v[j].s)
          \/ IsPlainMapping(x.v[j])

PlainMappingRoundTrip == Returned /\ IsPlainMapping(src) => result = src

(***************************************************************************)
(* C28.  Sequence-of-mappings collapse: when key k of a Mapping holds a    *)
(* non-empty Sequence whose elements are all Mappings with scalar values,  *)
(* the decoded encoding holds under k one Mapping (never a Sequence) with  *)
(* the union of the elements' entries, the value of a later element        *)
(* replacing that of an earlier one for the same key.                      *)
(***************************************************************************)
KeysOfElements(es) == UNION { { es[j].k[m] : m \in 1..Len(es[j].k) } : j \in 1..Len(es) }

\* the value the last element of es that has key q gives it
LastValueOf(es, q) ==
    LET last == CHOOSE j \in 1..Len(es) :
                   /\ \E m \in 1..Len(es[j].k) : es[j].k[m] = q
                   /\ \A n \in (j + 1)..Len(es) : \A m \in 1..Len(es[n].k) : es[n].k[m] # q
    IN  es[last].v[CHOOSE m \in 1..Len(es[last].k) : es[last].k[m] = q]

IsUnionOf(x, es) ==
    /\ x.t = "map"
    /\ { x.k[j] : j \in 1..Len(x.k) } = KeysOfElements(es)
    /\ Len(x.k) = Cardinality(KeysOfElements(es))
    /\ \A j \in 1..Len(x.k) : x.v[j] = LastValueOf(es, x.k[j])

ElementsCollapse ==
    Returned /\ src.t = "map" /\ src.k[1] = <<"k">> /\ src.v[1].t = "seq"
    => /\ result.t = "map"
       /\ \E p \in 1..Len(result.k) :
             result.k[p] = <<"k">> /\ IsUnionOf(result.v[p], src.v[1].e)

(***************************************************************************)
(* C25.  migrate always disconnects: once both connectors were created and *)
(* connecting was attempted, disconnect has been invoked on the source and *)
(* on the target connector when migrate returns, whether connect, the      *)
(* migration or a disconnect call succeeded or threw.                      *)
(***************************************************************************)
BothDisconnected ==
    migPc = "returned" /\ sourceConnector.created /\ targetConnector.created
    /\ sourceConnector.connectCalled
    => sourceConnector.disconnectCalled /\ targetConnector.disconnectCalled

(***************************************************************************)
(* C30.  In every result migrate returns, success is true only if the      *)
(* errors list is empty, whatever step recorded the error: validation,     *)
(* connecting, migrating or disconnecting.                                 *)
(***************************************************************************)
SuccessMeansNoErrors ==
    migPc = "returned" /\ migResult.success => migResult.errors = <<>>

====
